---- MODULE Spec2Model ----
(***************************************************************************)
(* Model of the shift calendar generator (src/shift_calendar_generator.py, *)
(* with the sort-free Calendar.to_str of src/shifts_calendar.py beside     *)
(* it): the Event / Calendar data model, its iCalendar serialisation, the  *)
(* file export, and the main window's handlers that append to and remove   *)
(* from Calendar.events and rebuild the displayed rows.                    *)
(*                                                                         *)
(* Text is modelled as TLA+ strings built the way the code builds them     *)
(* (f-strings and '\n'.join); file names are sequences of one-character    *)
(* strings so that pathlib's suffix arithmetic is computed, not assumed.   *)
(***************************************************************************)
EXTENDS Integers, Sequences, FiniteSets, TLC

\* ------------------------------------------------------------------ bounds

\* add_event calls in one session (each draws one uuid4 value)
MaxAdds == 3
\* save_to_file calls in one session
MaxSaves == 2
\* add_event calls in a session that also saves
MaxExportAdds == 2

\* --------------------------------------------------------------- datetimes

\* datetime(year, month, day, hour, minute): second defaults to 0
datetime(year, month, day, hour, minute) ==
    [year |-> year, month |-> month, day |-> day,
     hour |-> hour, minute |-> minute, second |-> 0]

\* datetime.__lt__: lexicographic on (year, month, day, hour, minute, second)
DtKey(d) == <<d.year, d.month, d.day, d.hour, d.minute, d.second>>

RECURSIVE TupleLt(_, _)
TupleLt(a, b) ==
    IF a = <<>> \/ b = <<>> THEN FALSE
    ELSE IF Head(a) # Head(b) THEN Head(a) < Head(b)
    ELSE TupleLt(Tail(a), Tail(b))

DtLt(a, b) == TupleLt(DtKey(a), DtKey(b))

\* zero padding of the two-digit strftime fields (%m %d %H %M %S)
Pad2(n) == IF n < 10 THEN "0" \o ToString(n) ELSE ToString(n)

\* datetime.strftime(Event.DT_FORMAT), DT_FORMAT = '%Y%m%dT%H%M%S'
strftime(d) ==
    ToString(d.year) \o Pad2(d.month) \o Pad2(d.day) \o "T"
        \o Pad2(d.hour) \o Pad2(d.minute) \o Pad2(d.second)

\* ------------------------------------------------------------------- text

\* sep.join(parts)
RECURSIVE join(_, _)
join(sep, parts) ==
    IF parts = <<>> THEN ""
    ELSE IF Len(parts) = 1 THEN parts[1]
    ELSE parts[1] \o sep \o join(sep, Tail(parts))

\* str(UUID): the nth uuid4 value drawn in the session, as text
UuidStr(n) == "00000000-0000-4000-8000-00000000000" \o ToString(n)

\* Path(__file__).name of the main program
ProgramName == "shift_calendar_generator.py"

\* ------------------------------------------------------------------ Event

\* Event(organiser, dtstart, dtend, summary) followed by __post_init__:
\* uid := uuid4() and dtstamp := datetime.now(), both fixed at construction
Event(organiser, dtstart, dtend, summary, now, fresh_uid) ==
    [organiser |-> organiser, dtstart |-> dtstart, dtend |-> dtend,
     summary |-> summary, dtstamp |-> now, uid |-> fresh_uid]

\* Event.to_str: the VEVENT block, eight lines joined by '\n'
Event_to_str(e) ==
    join("\n", << "BEGIN:VEVENT",
                  "UID:" \o UuidStr(e.uid),
                  "ORGANIZER:" \o e.organiser,
                  "DTSTAMP:" \o strftime(e.dtstamp),
                  "DTSTART:" \o strftime(e.dtstart),
                  "DTEND:" \o strftime(e.dtend),
                  "SUMMARY:" \o e.summary,
                  "END:VEVENT" >>)

\* Event.__lt__
Event_lt(a, b) == DtLt(a.dtstart, b.dtstart)

\* Event.__eq__
Event_eq(a, b) == a.dtstart = b.dtstart

\* ------------------------------------------------------- list operations

Front(s) == SubSeq(s, 1, Len(s) - 1)
Last(s) == s[Len(s)]

\* an insertion that moves x in front of the elements it ties with
RECURSIVE list_insort_ties_first(_, _)
list_insort_ties_first(s, x) ==
    IF s = <<>> THEN <<x>>
    ELSE IF ~Event_lt(Last(s), x)
         THEN Append(list_insort_ties_first(Front(s), x), Last(s))
         ELSE Append(s, x)

\* one step of sorted(): x is placed after every element y with not (x < y),
\* comparing with __lt__ only
RECURSIVE list_insort(_, _)
list_insort(s, x) ==
    IF s = <<>> THEN <<x>>
    ELSE IF Event_lt(x, Last(s))
         THEN Append(list_insort(Front(s), x), Last(s))
         ELSE Append(s, x)

\* sorted(events): a new list, the elements taken left to right
RECURSIVE sorted(_)
sorted(s) ==
    IF s = <<>> THEN <<>> ELSE list_insort(sorted(Front(s)), Last(s))

\* an index search that looks for the very object x (its uid) and not for
\* an element equal to it
list_index_identity(s, x) ==
    IF \E i \in 1..Len(s) : s[i].uid = x.uid
    THEN CHOOSE i \in 1..Len(s) :
            s[i].uid = x.uid /\ \A j \in 1..(i - 1) : s[j].uid # x.uid
    ELSE 0

\* the scan of list.remove(x): the first index whose element == x, 0 if none
list_index(s, x) ==
    IF \E i \in 1..Len(s) : Event_eq(s[i], x)
    THEN CHOOSE i \in 1..Len(s) :
            Event_eq(s[i], x) /\ \A j \in 1..(i - 1) : ~Event_eq(s[j], x)
    ELSE 0

list_without(s, i) == SubSeq(s, 1, i - 1) \o SubSeq(s, i + 1, Len(s))

\* list.remove(x): drops the first equal element, ValueError when none is
list_remove(s, x) ==
    LET i == list_index(s, x)
    IN  IF i = 0 THEN [raised |-> "ValueError", list |-> s]
        ELSE [raised |-> "none", list |-> list_without(s, i)]

\* a pop that takes the first element
list_pop_first(s) == [item |-> s[1], list |-> Tail(s)]

\* a pop that takes the element with the latest dtstart
list_pop_latest(s) ==
    LET i == CHOOSE k \in 1..Len(s) :
                /\ \A j \in 1..Len(s) : ~Event_lt(s[k], s[j])
                /\ \A j \in (k + 1)..Len(s) : Event_lt(s[j], s[k])
    IN  [item |-> s[i], list |-> list_without(s, i)]

\* list.pop(): takes the last element (called on a non-empty list only)
list_pop(s) == [item |-> Last(s), list |-> Front(s)]

\* --------------------------------------------------------------- Calendar

\* Calendar(prodid) followed by __post_init__: version '2.0', events = list()
Calendar(prodid) == [prodid |-> prodid, version |-> "2.0", events |-> <<>>]

\* the list `content` of Calendar.to_str, the events in the order given
Calendar_content(cal, in_order) ==
    << "BEGIN:VCALENDAR",
       "VERSION:" \o cal.version,
       "PRODID:" \o cal.prodid >>
    \o [i \in 1..Len(in_order) |-> Event_to_str(in_order[i])]
    \o << "END:VCALENDAR" >>

\* a rendering that ends the document with a newline
Calendar_to_str_newline_at_end(cal) ==
    join("\n", Calendar_content(cal, sorted(cal.events))) \o "\n"

\* Calendar.to_str of the main program: the events go through sorted()
Calendar_to_str(cal) == join("\n", Calendar_content(cal, sorted(cal.events)))

\* Calendar.to_str of shifts_calendar.py: the events in list order
shifts_calendar_to_str(cal) == join("\n", Calendar_content(cal, cal.events))

\* a rendering that sorts the list itself (self.events.sort())
events_sorted_in_place(cal) == sorted(cal.events)

\* what Calendar.to_str leaves in self.events: sorted() builds a new list
events_after_to_str(cal) == cal.events

\* ------------------------------------------------------------------ paths

\* a Path: the parent directory and the final component, the latter as a
\* sequence of characters
Path(parent, name) == [parent |-> parent, name |-> name]

\* what the save dialog returns when it is closed: ''
NoFileChosen == Path("", <<>>)

PathStr(p) == p.parent \o "/" \o join("", p.name)

\* str.rfind('.') on the name, positions from 1, 0 when there is no dot
rfind_dot(name) ==
    IF \E i \in 1..Len(name) : name[i] = "."
    THEN CHOOSE i \in 1..Len(name) :
            name[i] = "." /\ \A j \in (i + 1)..Len(name) : name[j] # "."
    ELSE 0

\* PurePath.suffix: from the last dot on, unless the dot starts or ends the
\* name
Path_suffix(p) ==
    LET i == rfind_dot(p.name)
    IN  IF 1 < i /\ i < Len(p.name) THEN SubSeq(p.name, i, Len(p.name))
        ELSE <<>>

\* a with_suffix that adds the suffix to whatever the name is
with_suffix_appended(p, suffix) == Path(p.parent, p.name \o suffix)

\* PurePath.with_suffix(suffix), called on a path whose name is not empty
with_suffix(p, suffix) ==
    LET old == Path_suffix(p)
    IN  IF old = <<>> THEN Path(p.parent, p.name \o suffix)
        ELSE Path(p.parent,
                  SubSeq(p.name, 1, Len(p.name) - Len(old)) \o suffix)

\* '.ics'
IcsSuffix == << ".", "i", "c", "s" >>

\* the file system after open(path, 'w') and a write of text
fs_write(files, path, text) ==
    [q \in (DOMAIN files) \cup {path} |-> IF q = path THEN text ELSE files[q]]

NoText == "<no text>"
NoLog == [level |-> "none"]
\* what a call of to_file gives its caller: the value None, or an exception
\* in place of a value
ReturnedNone == [kind |-> "None"]
Raised == [kind |-> "raised"]
NotCalled == [kind |-> "not called"]

\* a to_file that catches the I/O error and returns as if nothing happened
to_file_error_swallowed(cal, filename, io, files) ==
    LET save_to == with_suffix(filename, IcsSuffix)
        text == Calendar_to_str(cal)
    IN  IF io = "ok"
        THEN [raised |-> "none", ret |-> ReturnedNone, opens |-> 1,
              fs |-> fs_write(files, save_to, text),
              events |-> events_after_to_str(cal), rendered |-> text,
              log |-> [level |-> "INFO", text |-> "saved to", path |-> save_to]]
        ELSE [raised |-> "none", ret |-> ReturnedNone, opens |-> 1,
              fs |-> files, events |-> cal.events, rendered |-> NoText,
              log |-> NoLog]

\* Calendar.to_file(filename). io is what the operating system does with the
\* write: "ok"; "open_fails" (open raises OSError, nothing is rendered or
\* written); "write_fails" (the file was opened, hence truncated, and the
\* write or the close raises OSError).
to_file(cal, filename, io, files) ==
    LET save_to == with_suffix(filename, IcsSuffix)
        text == Calendar_to_str(cal)
    IN  CASE io = "ok" ->
               [raised |-> "none", ret |-> ReturnedNone, opens |-> 1,
                fs |-> fs_write(files, save_to, text),
                events |-> events_after_to_str(cal), rendered |-> text,
                log |-> [level |-> "INFO", text |-> "saved to",
                         path |-> save_to]]
          [] io = "open_fails" ->
               [raised |-> "OSError", ret |-> Raised, opens |-> 1,
                fs |-> files, events |-> cal.events, rendered |-> NoText,
                log |-> NoLog]
          [] io = "write_fails" ->
               [raised |-> "OSError", ret |-> Raised, opens |-> 1,
                fs |-> fs_write(files, save_to, ""),
                events |-> events_after_to_str(cal), rendered |-> text,
                log |-> NoLog]

\* ------------------------------------------------------------------- rows

\* EventLayout(event, delete_func): the row holds its widgets and is not yet
\* in the window's `shifts` layout
EventLayout(event) == [event |-> event, widgets |-> TRUE, in_shifts |-> FALSE]

\* insertLayout(self.shifts.count() - 1, event_layout)
insertLayout(row) == [row EXCEPT !.in_shifts = TRUE]

\* EventLayout.remove: the label and the button leave the row
EventLayout_remove(row) == [row EXCEPT !.widgets = FALSE]

\* an update that rebuilds the rows in list order
update_shifts_in_list_order(rows, events) ==
    [i \in 1..Len(events) |-> insertLayout(EventLayout(events[i]))]

\* MainWindow.update_shifts: every old row is taken out, one new row per
\* event of sorted(self.calendar.events) is put in
update_shifts(rows, events) ==
    [i \in 1..Len(events) |-> insertLayout(EventLayout(sorted(events)[i]))]

\* the events of the rows update_shifts takes out of the window: their
\* buttons were on screen and stay connected to delete_this_event
taken_out(rows) ==
    {rows[i].event : i \in {j \in 1..Len(rows) : rows[j].in_shifts}}

\* ----------------------------------------------------------------- inputs

QTime(hour, minute) == [hour |-> hour, minute |-> minute]
QDate(year, month, day) == [year |-> year, month |-> month, day |-> day]

\* what the user has selected when "Add event" is clicked: the calendar
\* widget's date and the two time fields (7:00 and 20:00 are the defaults).
\* Two selections share a start and differ in the end, one of them ending
\* before it starts; one is later on the same day, one on the next day.
Selections ==
    { [date |-> QDate(2025, 6, 4), start |-> QTime(7, 0), end |-> QTime(20, 0)],
      [date |-> QDate(2025, 6, 4), start |-> QTime(7, 0), end |-> QTime(6, 30)],
      [date |-> QDate(2025, 6, 4), start |-> QTime(19, 30), end |-> QTime(20, 0)],
      [date |-> QDate(2025, 6, 5), start |-> QTime(7, 0), end |-> QTime(20, 0)] }

\* values of datetime.now() (seconds are not cut off)
Clock ==
    { [year |-> 2025, month |-> 6, day |-> 1,
       hour |-> 9, minute |-> 5, second |-> 7] }

TestName == << "t", "e", "s", "t" >>
TestTxtName == TestName \o << ".", "t", "x", "t" >>
TestTarGzName == TestName \o << ".", "t", "a", "r", ".", "g", "z" >>

\* what getSaveFileName()[0] can be
DialogResults ==
    { NoFileChosen,
      Path("outputs", TestName),
      Path("outputs", TestTxtName),
      Path("outputs", TestTarGzName) }

\* the selections with the time fields left at their defaults
DefaultTimes == {sel \in Selections : sel.start = QTime(7, 0) /\ sel.end = QTime(20, 0)}

IoOutcomes == {"ok", "open_fails", "write_fails"}

NoEvent == [uid |-> 0]

\* ------------------------------------------------------------------ state

VARIABLES
    calendar,       \* MainWindow.calendar
    shift_events,   \* MainWindow.shift_events, the rows on display
    detached,       \* events of the rows taken out of the window so far
    uuids,          \* number of uuid4 values drawn
    fs,             \* the files written: path -> text
    saves,          \* number of save_to_file calls
    op,             \* the handler that ran last
    prev_op,        \* the handler that ran before it
    arg,            \* what it was given: an Event or the dialog's result
    err,            \* the exception that left it, "none" if none did
    ret,            \* what to_file gave its caller in it
    opens,          \* how many times it opened a file for writing
    log,            \* the last record it logged at its end
    rendered,       \* the text to_str returned in it
    pre_events      \* calendar.events when it began

vars == << calendar, shift_events, detached, uuids, fs, saves,
           op, prev_op, arg, err, ret, opens, log, rendered, pre_events >>

\* MainWindow.__init__
Init ==
    /\ calendar = Calendar(ProgramName)
    /\ shift_events = <<>>
    /\ detached = {}
    /\ uuids = 0
    /\ fs = << >>
    /\ saves = 0
    /\ op = "init"
    /\ prev_op = "init"
    /\ arg = NoEvent
    /\ err = "none"
    /\ ret = NotCalled
    /\ opens = 0
    /\ log = NoLog
    /\ rendered = NoText
    /\ pre_events = <<>>

\* ---------------------------------------------------------------- handlers

\* MainWindow.add_event
add_event(sel, now) ==
    /\ uuids < MaxAdds
    /\ LET start_datetime == datetime(sel.date.year, sel.date.month,
                                      sel.date.day, sel.start.hour,
                                      sel.start.minute)
           end_datetime == datetime(sel.date.year, sel.date.month,
                                    sel.date.day, sel.end.hour,
                                    sel.end.minute)
           event == Event(ProgramName, start_datetime, end_datetime,
                          "long day", now, uuids + 1)
           events1 == Append(calendar.events, event)
           rows1 == Append(shift_events, EventLayout(event))
       IN  /\ calendar' = [calendar EXCEPT !.events = events1]
           /\ shift_events' = update_shifts(rows1, events1)
           /\ detached' = detached \cup taken_out(rows1)
           /\ arg' = event
           /\ log' = [level |-> "INFO", text |-> "added event",
                      event |-> event.uid]
    /\ uuids' = uuids + 1
    /\ op' = "add_event"
    /\ prev_op' = op
    /\ opens' = 0
    /\ err' = "none"
    /\ ret' = NotCalled
    /\ rendered' = NoText
    /\ pre_events' = calendar.events
    /\ UNCHANGED << fs, saves >>

\* MainWindow.delete_last_event
delete_last_event ==
    /\ IF Len(calendar.events) > 0
       THEN LET popped == list_pop(calendar.events)
            IN  /\ calendar' = [calendar EXCEPT !.events = popped.list]
                /\ shift_events' = update_shifts(shift_events, popped.list)
                /\ detached' = detached \cup taken_out(shift_events)
                /\ arg' = popped.item
                /\ log' = [level |-> "INFO", text |-> "deleted last event",
                           event |-> popped.item.uid]
       ELSE /\ UNCHANGED << calendar, shift_events, detached >>
            /\ arg' = NoEvent
            /\ log' = NoLog
    /\ op' = "delete_last_event"
    /\ prev_op' = op
    /\ opens' = 0
    /\ err' = "none"
    /\ ret' = NotCalled
    /\ rendered' = NoText
    /\ pre_events' = calendar.events
    /\ UNCHANGED << uuids, fs, saves >>

\* EventLayout.delete_this_event of a row made for `event`: the row's
\* widgets are removed, then its delete_func (get_delete_func(event)) runs
\* self.calendar.events.remove(event) and update_shifts(). rows_now is
\* shift_events with this row's widgets removed.
delete_this_event(event, rows_now) ==
    /\ LET removed == list_remove(calendar.events, event)
       IN  IF removed.raised = "none"
           THEN /\ calendar' = [calendar EXCEPT !.events = removed.list]
                /\ shift_events' = update_shifts(rows_now, removed.list)
                /\ detached' = detached \cup taken_out(rows_now)
                /\ err' = "none"
                /\ log' = [level |-> "INFO", text |-> "deleted event",
                           event |-> event.uid]
           ELSE /\ calendar' = calendar
                /\ shift_events' = rows_now
                /\ detached' = detached
                /\ err' = removed.raised
                /\ log' = NoLog
    /\ op' = "delete_this_event"
    /\ prev_op' = op
    /\ opens' = 0
    /\ arg' = event
    /\ ret' = NotCalled
    /\ rendered' = NoText
    /\ pre_events' = calendar.events
    /\ UNCHANGED << uuids, fs, saves >>

\* a click on the delete button of the i-th row on display
click_row(i) ==
    delete_this_event(shift_events[i].event,
                      [shift_events EXCEPT ![i] = EventLayout_remove(@)])

\* a click on the delete button of a row that update_shifts took out of the
\* window: remove() and removeItem() take the widgets out of their layouts,
\* and nothing hides, deletes or disconnects the button
click_detached(event) ==
    delete_this_event(event, shift_events)

\* MainWindow.save_to_file
save_to_file(from_dialog, io) ==
    /\ saves < MaxSaves
    /\ IF from_dialog # NoFileChosen
       THEN LET done == to_file(calendar, from_dialog, io, fs)
            IN  /\ calendar' = [calendar EXCEPT !.events = done.events]
                /\ fs' = done.fs
                /\ err' = done.raised
                /\ ret' = done.ret
                /\ opens' = done.opens
                /\ log' = done.log
                /\ rendered' = done.rendered
       ELSE /\ UNCHANGED << calendar, fs >>
            /\ err' = "none"
            /\ ret' = NotCalled
            /\ opens' = 0
            /\ log' = [level |-> "WARNING", text |-> "File not saved!"]
            /\ rendered' = NoText
    /\ saves' = saves + 1
    /\ op' = "save_to_file"
    /\ prev_op' = op
    /\ arg' = from_dialog
    /\ pre_events' = calendar.events
    /\ UNCHANGED << shift_events, detached, uuids >>

\* the handlers that change the collection and the rows
Next ==
    \/ \E sel \in Selections, now \in Clock : add_event(sel, now)
    \/ delete_last_event
    \/ \E i \in 1..Len(shift_events) : click_row(i)
    \/ \E event \in detached : click_detached(event)

Spec == Init /\ [][Next]_vars

\* every handler of the window, "Save to file..." included
NextExport ==
    \/ \E sel \in DefaultTimes, now \in Clock :
          uuids < MaxExportAdds /\ add_event(sel, now)
    \/ delete_last_event
    \/ \E i \in 1..Len(shift_events) : click_row(i)
    \/ \E event \in detached : click_detached(event)
    \/ \E from_dialog \in DialogResults, io \in IoOutcomes :
          save_to_file(from_dialog, io)

SpecExport == Init /\ [][NextExport]_vars

\* ------------------------------------------------------------ properties

Range(s) == {s[i] : i \in 1..Len(s)}

\* the place of s[i] when s is put in ascending dtstart order with ties kept
\* in list order: one more than the number of elements that must precede it
PlaceOf(s, i) ==
    1 + Cardinality({j \in 1..Len(s) :
                        \/ DtLt(s[j].dtstart, s[i].dtstart)
                        \/ (s[j].dtstart = s[i].dtstart /\ j < i)})

InStartOrder(s) ==
    [k \in 1..Len(s) |-> s[CHOOSE i \in 1..Len(s) : PlaceOf(s, i) = k]]

\* some element of s is followed by one that starts earlier
OutOfOrder(s) ==
    \E k \in 1..(Len(s) - 1) : DtLt(s[k + 1].dtstart, s[k].dtstart)

\* two elements of s share their dtstart
HasTie(s) ==
    \E i, j \in 1..Len(s) : i < j /\ s[i].dtstart = s[j].dtstart

\* the uid drawn last among the elements of s (uids are drawn in append
\* order)
NewestUid(s) == CHOOSE u \in {e.uid : e \in Range(s)} :
                    \A e \in Range(s) : e.uid <= u

\* the indexes of s whose element starts when e starts
StartsWith(s, e) == {i \in 1..Len(s) : s[i].dtstart = e.dtstart}

FirstOf(S) == CHOOSE i \in S : \A j \in S : i <= j

\* C1: Calendar.to_str lists the Event blocks in non-decreasing dtstart
\* order, and Events with equal dtstart in the order they were appended.
C1_StableStartOrder ==
    LET listed == InStartOrder(calendar.events)
    IN  /\ \A k \in 1..(Len(listed) - 1) :
              /\ ~DtLt(listed[k + 1].dtstart, listed[k].dtstart)
              /\ listed[k + 1].dtstart = listed[k].dtstart
                    => listed[k].uid < listed[k + 1].uid
        /\ Calendar_to_str(calendar)
              = join("\n", Calendar_content(calendar, listed))

C1_Witness ==
    /\ Len(calendar.events) = 3
    /\ HasTie(calendar.events)
    /\ OutOfOrder(calendar.events)

C3_NoMatchIsNoOp ==
    (op = "delete_this_event" /\ StartsWith(pre_events, arg) = {}) =>
        /\ err = "none"
        /\ calendar.events = pre_events

\* C4: delete_last_event removes the last element in insertion order, the
\* most recently appended Event still present, and on an empty collection
\* does nothing and raises nothing.
C4_RemovesLastAppended ==
    op = "delete_last_event" =>
        /\ err = "none"
        /\ IF pre_events = <<>>
           THEN calendar.events = <<>>
           ELSE /\ calendar.events = Front(pre_events)
                /\ arg = Last(pre_events)
                /\ arg.uid = NewestUid(pre_events)

\* the Event removed was not the one with the latest dtstart
C4_Witness ==
    /\ op = "delete_last_event"
    /\ pre_events # <<>>
    /\ \E e \in Range(calendar.events) : DtLt(arg.dtstart, e.dtstart)

\* C5: add_event followed at once by delete_last_event leaves the rendered
\* calendar as it was before the add.
C5_AppendRemoveLast ==
    [][(op = "add_event" /\ op' = "delete_last_event") =>
          Calendar_to_str(calendar') =
              Calendar_to_str([calendar EXCEPT !.events = pre_events])]_vars

\* the added Event started before one already there, so it is not the last
\* block of the rendering
C5_Witness ==
    /\ op = "delete_last_event"
    /\ prev_op = "add_event"
    /\ \E e \in Range(calendar.events) : DtLt(arg.dtstart, e.dtstart)

TestIcs == Path("outputs", TestName \o IcsSuffix)
TestTarIcs == Path("outputs", TestName \o << ".", "t", "a", "r" >> \o IcsSuffix)

EndsInIcs(p) ==
    /\ Len(p.name) > Len(IcsSuffix)
    /\ SubSeq(p.name, Len(p.name) - Len(IcsSuffix) + 1, Len(p.name)) = IcsSuffix

\* C6: to_file writes to the path with its extension replaced by '.ics':
\* 'outputs/test' and 'outputs/test.txt' both put the rendered calendar in
\* 'outputs/test.ics', and no file is written under any other name.
C6_IcsExtension ==
    /\ \A p \in DOMAIN fs : EndsInIcs(p)
    /\ DOMAIN fs \subseteq {TestIcs, TestTarIcs}
    /\ (op = "save_to_file" /\ err = "none" /\ arg # NoFileChosen) =>
          LET target == IF arg.name = TestTarGzName THEN TestTarIcs
                        ELSE TestIcs
          IN  /\ target \in DOMAIN fs
              /\ fs[target] = Calendar_to_str(calendar)

C6_Witness ==
    /\ op = "save_to_file"
    /\ err = "none"
    /\ arg = Path("outputs", TestTxtName)
    /\ calendar.events # <<>>
    /\ DOMAIN fs = {TestIcs}

\* C7 as claimed: to_file hands its caller the final path on success, and
\* an exception when the write fails.
C7_ReturnsFinalPath ==
    (op = "save_to_file" /\ arg # NoFileChosen) =>
        \/ err = "none" /\ ret.kind = "path"
        \/ err = "OSError"

\* C7 as amended: to_file returns None. A call that returns has written the
\* file and logged the final path; a failed write leaves the handler as an
\* OSError after a single open, with nothing logged.
C7_LogsFinalPathOrRaises ==
    (op = "save_to_file" /\ arg # NoFileChosen) =>
        /\ opens = 1
        /\ \/ /\ err = "none"
              /\ ret = ReturnedNone
              /\ log.level = "INFO" /\ log.text = "saved to"
              /\ EndsInIcs(log.path)
              /\ log.path \in DOMAIN fs
              /\ fs[log.path] = Calendar_to_str(calendar)
           \/ /\ err = "OSError"
              /\ ret = Raised
              /\ log = NoLog
              /\ rendered = NoText \/ fs[with_suffix(arg, IcsSuffix)] = ""

\* a write that failed after the file was opened
C7_Witness ==
    /\ op = "save_to_file"
    /\ err = "OSError"
    /\ rendered # NoText
    /\ calendar.events # <<>>

EmptyCalendarText ==
    "BEGIN:VCALENDAR\nVERSION:2.0\nPRODID:shift_calendar_generator.py\nEND:VCALENDAR"

\* C8: a Calendar with no Events renders as exactly the four lines
\* BEGIN:VCALENDAR, VERSION:2.0, PRODID:<prodid>, END:VCALENDAR with single
\* newlines between them and none at the end.
C8_EmptyCalendar ==
    calendar.events = <<>> =>
        /\ Calendar_to_str(calendar) = EmptyCalendarText
        /\ shifts_calendar_to_str(calendar) = EmptyCalendarText

\* emptied again by a removal
C8_Witness ==
    /\ calendar.events = <<>>
    /\ op \in {"delete_last_event", "delete_this_event"}
    /\ pre_events # <<>>

\* C9: rendering changes neither the collection nor any Event: the list
\* keeps its insertion order, a second rendering gives the same text, and a
\* delete_last_event after it removes the most recently appended Event.
C9_RenderReadOnly ==
    [][/\ op' = "save_to_file" =>
            /\ calendar' = calendar
            /\ shift_events' = shift_events
            /\ (op = "save_to_file" /\ rendered # NoText /\ rendered' # NoText)
                  => rendered' = rendered
       /\ (op = "save_to_file" /\ rendered # NoText
              /\ op' = "delete_last_event" /\ calendar.events # <<>>)
            => arg'.uid = NewestUid(pre_events')]_vars

\* a rendering of a list that is not in dtstart order
C9_Witness ==
    /\ op = "save_to_file"
    /\ rendered # NoText
    /\ OutOfOrder(calendar.events)

\* C10: after every handler that completed, the rows on display are the
\* Events of the collection, one row each, in stable dtstart order.
C10_RowsMatchEvents ==
    err = "none" =>
        /\ Len(shift_events) = Len(calendar.events)
        /\ \A k \in 1..Len(shift_events) :
              /\ shift_events[k].event = InStartOrder(calendar.events)[k]
              /\ shift_events[k].widgets
              /\ shift_events[k].in_shifts

\* a row's delete function has run and left a list that is not in dtstart
\* order, so the rows are in another order than the list
C10_Witness ==
    /\ op = "delete_this_event"
    /\ err = "none"
    /\ OutOfOrder(calendar.events)

====
